---- MODULE Spec2Model ----
(***************************************************************************)
(* A model of hikari-crescent's command registry (internal/registry.py)    *)
(* and of its interaction dispatch (internal/handle_resp.py).              *)
(*                                                                         *)
(* Python objects are records.  `None` is the string "None"; an optional    *)
(* list is the record [none, items] so that None and [] stay distinct.      *)
(* A dict is a sequence of [key, value] entries in insertion order.         *)
(***************************************************************************)
EXTENDS Integers, Sequences, FiniteSets, TLC

VARIABLES
    registry,                   \* CommandHandler.registry: ordered dict Unique -> handler
    default_guild,              \* bot.default_guild
    guilds,                     \* CommandHandler.guilds
    allow_unknown_interactions, \* client.allow_unknown_interactions
    tasks,                      \* in-flight handle_resp coroutines
    remote,                     \* the commands held by the remote service
    sync,                       \* what CommandHandler.init did
    builds,                     \* the build_commands() calls so far and their results
    registrations,              \* number of register() calls so far
    calls,                      \* REST calls of CommandHandler.init still in flight
    payload                     \* an interaction payload and what the parsers made of it

vars == <<registry, default_guild, guilds, allow_unknown_interactions, tasks,
          remote, sync, builds, registrations, calls, payload>>

---------------------------------------------------------------------------
(* Bounds *)
MaxRegistered == 2      \* register() calls in one behaviour
MaxBuilds == 2          \* build_commands() calls in one behaviour
MaxHooks == 2           \* hooks (and after_hooks) on one handler

---------------------------------------------------------------------------
(* Values of the hikari enums the code compares against *)
CommandType_SLASH == 1            \* CommandType.SLASH, AppCommandType.CHAT_INPUT
CommandType_USER == 2             \* CommandType.USER
CommandType_MESSAGE == 3          \* CommandType.MESSAGE
OptionType_SUB_COMMAND == 1       \* OptionType.SUB_COMMAND
OptionType_SUB_COMMAND_GROUP == 2 \* OptionType.SUB_COMMAND_GROUP
OptionType_STRING == 3            \* OptionType.STRING
OptionType_USER == 6              \* OptionType.USER
OptionType_CHANNEL == 7           \* OptionType.CHANNEL
OptionType_ROLE == 8              \* OptionType.ROLE
OptionType_MENTIONABLE == 9       \* OptionType.MENTIONABLE
OptionType_ATTACHMENT == 11       \* OptionType.ATTACHMENT

None == "None"
HIDDEN == "HIDDEN"
UNDEFINED == "UNDEFINED"

\* Python's `a or b` on an Optional value
Or(a, b) == IF a # None THEN a ELSE b

NoneList == [none |-> TRUE, items |-> <<>>]
List(s) == [none |-> FALSE, items |-> s]
\* Python truthiness of an optional list
Truthy(l) == ~l.none /\ l.items # <<>>

---------------------------------------------------------------------------
(* Ordered dict *)
IndexOf(d, key) ==
    IF \E i \in 1..Len(d) : d[i].key = key
    THEN CHOOSE i \in 1..Len(d) : d[i].key = key
    ELSE 0

DictSet(d, key, value) ==
    IF IndexOf(d, key) # 0
    THEN [d EXCEPT ![IndexOf(d, key)].value = value]
    ELSE Append(d, [key |-> key, value |-> value])

---------------------------------------------------------------------------
(* Descriptor model *)
Unique(name, type, guild_id, group, sub_group) ==
    [name |-> name, type |-> type, guild_id |-> guild_id,
     group |-> group, sub_group |-> sub_group]

\* command.metadata.unique, Unique.from_meta_struct(command)
from_meta_struct(command) ==
    Unique(command.app.name, command.app.type, command.app.guild_id,
           command.group, command.sub_group)

AppCommand(type, name, description, guild_id, options, default_permission, id) ==
    [type |-> type, name |-> name, description |-> description,
     guild_id |-> guild_id, options |-> options,
     default_permission |-> default_permission, id |-> id]

\* hikari.CommandOption as the registry builds it (is_required is always None)
CommandOption(name, description, type, options) ==
    [name |-> name, description |-> description, type |-> type,
     options |-> options]

\* register_command(): a handler bound to one descriptor
register_command(callback, guild, group, sub_group, name, description, options) ==
    [callback |-> callback,
     group |-> group,
     sub_group |-> sub_group,
     app |-> AppCommand(CommandType_SLASH, Or(name, callback), Or(description, "ZWSP"),
                        guild, options, UNDEFINED, None),
     hooks |-> 0,
     after_hooks |-> 0,
     autocomplete |-> {}]

---------------------------------------------------------------------------
(* CommandHandler.register *)
register(reg, command, dg) ==
    LET c == [command EXCEPT !.app.guild_id = Or(@, dg)]
    IN  DictSet(reg, from_meta_struct(c), c)

\* CommandHandler._get: the index of the entry, 0 for KeyError
_get(reg, u) == IndexOf(reg, u)

\* the lookup with the two scopes tried in the wrong order
_get_command_global_first(reg, name, type, guild_id, group, sub_group) ==
    LET scoped == _get(reg, Unique(name, type, guild_id, group, sub_group))
        global == _get(reg, Unique(name, type, None, group, sub_group))
    IN  IF global # 0 THEN global
        ELSE IF scoped # 0 THEN scoped
        ELSE 0

_get_command(reg, name, type, guild_id, group, sub_group) ==
    LET scoped == _get(reg, Unique(name, type, guild_id, group, sub_group))
        global == _get(reg, Unique(name, type, None, group, sub_group))
    IN  IF scoped # 0 THEN scoped
        ELSE IF global # 0 THEN global
        ELSE 0

---------------------------------------------------------------------------
(* Inbound payloads *)

\* a leaf option of an interaction
Leaf(name, type, value, is_focused) ==
    [name |-> name, type |-> type, value |-> value, options |-> NoneList,
     is_focused |-> is_focused]

\* a sub-command or sub-command-group option of an interaction
Nested(name, type, options) ==
    [name |-> name, type |-> type, value |-> None, options |-> options,
     is_focused |-> FALSE]

NoResolved ==
    [none |-> TRUE, roles |-> <<>>, members |-> <<>>, users |-> <<>>,
     channels |-> <<>>, attachments |-> <<>>, messages |-> <<>>]

\* crescent.utils.unwrap and the [0] that follows it: does the expression raise
unwrap_first_raises(l) == l.none \/ l.items = <<>>

\* the router taking the group and the sub_group of a sub-command-group the
\* wrong way round
_get_crescent_command_data_swapped(interaction) ==
    LET options == interaction.options
        plain == [raised |-> FALSE, command_name |-> interaction.command_name,
                  group |-> None, sub_group |-> None, options |-> options]
    IN  IF Truthy(options)
        THEN LET option == options.items[1]
             IN  IF option.type = 1
                 THEN [raised |-> FALSE, command_name |-> option.name,
                       group |-> interaction.command_name, sub_group |-> None,
                       options |-> option.options]
                 ELSE IF option.type = 2
                 THEN IF unwrap_first_raises(option.options)
                      THEN [plain EXCEPT !.raised = TRUE]
                      ELSE [raised |-> FALSE,
                            command_name |-> option.options.items[1].name,
                            group |-> option.name,
                            sub_group |-> interaction.command_name,
                            options |-> option.options.items[1].options]
                 ELSE plain
        ELSE plain

_get_crescent_command_data(interaction) ==
    LET options == interaction.options
        plain == [raised |-> FALSE, command_name |-> interaction.command_name,
                  group |-> None, sub_group |-> None, options |-> options]
    IN  IF Truthy(options)
        THEN LET option == options.items[1]
             IN  IF option.type = 1
                 THEN [raised |-> FALSE, command_name |-> option.name,
                       group |-> interaction.command_name, sub_group |-> None,
                       options |-> option.options]
                 ELSE IF option.type = 2
                 THEN IF unwrap_first_raises(option.options)
                      THEN [plain EXCEPT !.raised = TRUE]
                      ELSE [raised |-> FALSE,
                            command_name |-> option.options.items[1].name,
                            group |-> interaction.command_name,
                            sub_group |-> option.name,
                            options |-> option.options.items[1].options]
                 ELSE plain
        ELSE plain

\* the result of a search: found, and the option when found
NoOption == [found |-> FALSE, option |-> Leaf(None, 0, None, FALSE)]

\* the search that looks at the top level only
RECURSIVE _get_option_top_level(_)
_get_option_top_level(options) ==
    IF options = <<>> THEN NoOption
    ELSE IF Head(options).is_focused THEN [found |-> TRUE, option |-> Head(options)]
    ELSE _get_option_top_level(Tail(options))

RECURSIVE _get_option_recursive(_)
_get_option_recursive(options) ==
    IF options = <<>> THEN NoOption
    ELSE LET option == Head(options)
         IN  IF option.is_focused THEN [found |-> TRUE, option |-> option]
             ELSE IF ~Truthy(option.options)
                  THEN _get_option_recursive(Tail(options))
                  ELSE LET maybe_option == _get_option_recursive(option.options.items)
                       IN  IF maybe_option.found THEN maybe_option
                           ELSE _get_option_recursive(Tail(options))

---------------------------------------------------------------------------
(* Argument materializer *)

\* a materialized value: the raw wire value, or the object of a resolved section
Raw(v) == [kind |-> "raw", v |-> v]
Resolved(section, id) == [kind |-> section, v |-> id]
NoValue == Raw(None)

_VALUE_TYPE_LINK(option_type) ==
    IF option_type = OptionType_ROLE THEN <<"roles">>
    ELSE IF option_type = OptionType_USER THEN <<"members", "users">>
    ELSE IF option_type = OptionType_CHANNEL THEN <<"channels">>
    ELSE IF option_type = OptionType_ATTACHMENT THEN <<"attachments">>
    ELSE <<>>

\* getattr(interaction.resolved, resolved_type, None): the ids of that section
Section(resolved, resolved_type) ==
    IF resolved.none THEN <<>> ELSE resolved[resolved_type]

Contains(s, x) == \E i \in 1..Len(s) : s[i] = x

\* the first non-empty candidate section, "None" when there is none
_get_resolved(interaction, option_type) ==
    LET attrs == _VALUE_TYPE_LINK(option_type)
        hits == {i \in 1..Len(attrs) : Section(interaction.resolved, attrs[i]) # <<>>}
    IN  IF hits = {} THEN None
        ELSE attrs[CHOOSE i \in hits : \A j \in hits : i <= j]

\* the materializer without its early return for autocomplete interactions
_extract_value_always_resolving(option, interaction) ==
    IF option.value = None
    THEN [raised |-> TRUE, value |-> NoValue]
    ELSE IF option.type = OptionType_MENTIONABLE
    THEN [raised |-> FALSE, value |-> [kind |-> "Mentionable", v |-> None]]
    ELSE LET resolved == _get_resolved(interaction, option.type)
         IN  IF resolved = None
             THEN [raised |-> FALSE, value |-> Raw(option.value)]
             ELSE IF Contains(Section(interaction.resolved, resolved), option.value)
             THEN [raised |-> FALSE, value |-> Resolved(resolved, option.value)]
             ELSE [raised |-> TRUE, value |-> NoValue]

_extract_value(option, interaction) ==
    IF option.value = None
    THEN [raised |-> TRUE, value |-> NoValue]
    ELSE IF interaction.kind = "autocomplete"
    THEN [raised |-> FALSE, value |-> Raw(option.value)]
    ELSE IF option.type = OptionType_MENTIONABLE
    THEN [raised |-> FALSE, value |-> [kind |-> "Mentionable", v |-> None]]
    ELSE LET resolved == _get_resolved(interaction, option.type)
         IN  IF resolved = None
             THEN [raised |-> FALSE, value |-> Raw(option.value)]
             ELSE IF Contains(Section(interaction.resolved, resolved), option.value)
             THEN [raised |-> FALSE, value |-> Resolved(resolved, option.value)]
             ELSE [raised |-> TRUE, value |-> NoValue]

\* a dict of keyword arguments: a function from the option names
EmptyKwargs == [n \in {} |-> NoValue]
NoKwargs == [raised |-> TRUE, kwargs |-> EmptyKwargs]

_options_to_kwargs(interaction, options) ==
    IF ~Truthy(options) THEN [raised |-> FALSE, kwargs |-> EmptyKwargs]
    ELSE LET items == options.items
             last(n) == CHOOSE i \in 1..Len(items) :
                            /\ items[i].name = n
                            /\ \A j \in 1..Len(items) : items[j].name = n => j <= i
         IN  IF \E i \in 1..Len(items) : _extract_value(items[i], interaction).raised
             THEN NoKwargs
             ELSE [raised |-> FALSE,
                   kwargs |-> [n \in {items[i].name : i \in 1..Len(items)} |->
                                  _extract_value(items[last(n)], interaction).value]]

\* the materializer of target commands preferring the user to the member
_resolved_data_to_kwargs_user_first(interaction) ==
    LET resolved == interaction.resolved
    IN  IF resolved.none THEN NoKwargs
        ELSE IF resolved.messages # <<>>
        THEN [raised |-> FALSE,
              kwargs |-> [n \in {"message"} |-> Resolved("messages", resolved.messages[1])]]
        ELSE IF resolved.users # <<>>
        THEN [raised |-> FALSE,
              kwargs |-> [n \in {"user"} |-> Resolved("users", resolved.users[1])]]
        ELSE IF resolved.members # <<>>
        THEN [raised |-> FALSE,
              kwargs |-> [n \in {"user"} |-> Resolved("members", resolved.members[1])]]
        ELSE NoKwargs

_resolved_data_to_kwargs(interaction) ==
    LET resolved == interaction.resolved
    IN  IF resolved.none THEN NoKwargs
        ELSE IF resolved.messages # <<>>
        THEN [raised |-> FALSE,
              kwargs |-> [n \in {"message"} |-> Resolved("messages", resolved.messages[1])]]
        ELSE IF resolved.members # <<>>
        THEN [raised |-> FALSE,
              kwargs |-> [n \in {"user"} |-> Resolved("members", resolved.members[1])]]
        ELSE IF resolved.users # <<>>
        THEN [raised |-> FALSE,
              kwargs |-> [n \in {"user"} |-> Resolved("users", resolved.users[1])]]
        ELSE NoKwargs

\* the options of the Context that _context_from_interaction_resp builds
_context_from_interaction_resp(interaction) ==
    LET data == _get_crescent_command_data(interaction)
    IN  IF data.raised THEN NoKwargs
        ELSE IF interaction.command_type = CommandType_SLASH
        THEN _options_to_kwargs(interaction, data.options)
        ELSE IF interaction.kind # "command" THEN NoKwargs
        ELSE _resolved_data_to_kwargs(interaction)

---------------------------------------------------------------------------
(* Execution pipeline: one handle_resp coroutine per task *)

Tasks == {"t1"}

\* a call made on behalf of an interaction: what was called, the hook's position,
\* its result (or the exception passed to it) and the handled flag passed to it
Event(ev, n, res, handled) == [ev |-> ev, n |-> n, res |-> res, handled |-> handled]
Ev(ev) == Event(ev, 0, None, FALSE)

NoHandler == register_command(None, None, None, None, None, None, NoneList)

NoInteraction ==
    [kind |-> "other", command_name |-> None, command_type |-> CommandType_SLASH,
     guild_id |-> None, options |-> NoneList, resolved |-> NoResolved]

IdleTask ==
    [pc |-> "idle", interaction |-> NoInteraction, future |-> None,
     command |-> NoHandler, options |-> EmptyKwargs, option |-> NoOption,
     i |-> 0, exc |-> None, handled |-> FALSE, cause |-> None, log |-> <<>>]

\* Context._unset_future: the future when one is set and not done
_unset_future(future) == IF future = "pending" THEN future ELSE None

\* What a hook may do: return None, HookResult(exit=False), HookResult(exit=True), raise
HookResults == {"None", "continue", "exit", "raise"}
Exceptions == {"ValueError", "RuntimeError"}

\* the loop without its `return True`
_handle_hooks_ignoring_exit(hooks, i, hook_res) ==
    IF hook_res = "raise" THEN "raised"
    ELSE IF i < hooks THEN "next"
    ELSE "False"

\* One iteration of the loop of _handle_hooks, on the result of hook number i:
\* "True"/"False" when the function returns, "next" when the loop goes on
_handle_hooks(hooks, i, hook_res) ==
    IF hook_res = "raise" THEN "raised"
    ELSE IF hook_res = "exit" THEN "True"
    ELSE IF i < hooks THEN "next"
    ELSE "False"

\* _handle_slash_resp up to its first await
_handle_slash_resp(task) ==
    IF task.command.hooks = 0
    THEN [task EXCEPT !.pc = "callback"]
    ELSE [task EXCEPT !.pc = "pre_hook", !.i = 1]

\* _handle_autocomplete_resp up to its first await
_handle_autocomplete_resp(task) ==
    LET option == _get_option_recursive(task.interaction.options.items)
    IN  IF task.command.autocomplete = {} THEN [task EXCEPT !.pc = "returned"]
        ELSE IF ~option.found THEN [task EXCEPT !.pc = "returned"]
        ELSE IF option.option.name \notin task.command.autocomplete
        THEN [task EXCEPT !.pc = "raised", !.cause = "autocomplete_lookup",
                          !.exc = "KeyError", !.option = option]
        ELSE [task EXCEPT !.pc = "ac_callback", !.option = option]

\* the branch with its `return` under `if not client.allow_unknown_interactions:`
handle_resp_unknown_return_nested(task, allow) ==
    IF allow
    THEN [task EXCEPT !.pc = "raised", !.cause = "miss", !.exc = "AttributeError"]
    ELSE [task EXCEPT !.pc = "returned", !.cause = "miss",
                      !.log = Append(@, Ev("warning"))]

\* handle_resp, the branch `if not command:`
handle_resp_unknown(task, allow) ==
    [task EXCEPT !.pc = "returned", !.cause = "miss",
                 !.log = IF allow THEN @ ELSE Append(@, Ev("warning"))]

\* handle_resp routing a sub-command-group without sub-command as a plain command
handle_resp_degrading(task, reg, allow) ==
    LET interaction == task.interaction
        routed == _get_crescent_command_data(interaction)
        data == IF routed.raised THEN [routed EXCEPT !.raised = FALSE] ELSE routed
        command == _get_command(reg, data.command_name, interaction.command_type,
                                interaction.guild_id, data.group, data.sub_group)
        ctx == _context_from_interaction_resp(interaction)
    IN  IF interaction.kind \notin {"command", "autocomplete"}
        THEN [task EXCEPT !.pc = "returned"]
        ELSE IF command = 0
        THEN handle_resp_unknown(task, allow)
        ELSE IF ctx.raised
        THEN [task EXCEPT !.pc = "raised", !.cause = "context",
                          !.command = reg[command].value]
        ELSE IF interaction.kind = "autocomplete"
        THEN _handle_autocomplete_resp(
                 [task EXCEPT !.command = reg[command].value, !.options = ctx.kwargs])
        ELSE _handle_slash_resp(
                 [task EXCEPT !.command = reg[command].value, !.options = ctx.kwargs])

\* handle_resp up to its first await
handle_resp(task, reg, allow) ==
    LET interaction == task.interaction
        data == _get_crescent_command_data(interaction)
        command == _get_command(reg, data.command_name, interaction.command_type,
                                interaction.guild_id, data.group, data.sub_group)
        ctx == _context_from_interaction_resp(interaction)
    IN  IF interaction.kind \notin {"command", "autocomplete"}
        THEN [task EXCEPT !.pc = "returned"]
        ELSE IF data.raised
        THEN [task EXCEPT !.pc = "raised", !.cause = "router"]
        ELSE IF command = 0
        THEN handle_resp_unknown(task, allow)
        ELSE IF ctx.raised
        THEN [task EXCEPT !.pc = "raised", !.cause = "context",
                          !.command = reg[command].value]
        ELSE IF interaction.kind = "autocomplete"
        THEN _handle_autocomplete_resp(
                 [task EXCEPT !.command = reg[command].value, !.options = ctx.kwargs])
        ELSE _handle_slash_resp(
                 [task EXCEPT !.command = reg[command].value, !.options = ctx.kwargs])

---------------------------------------------------------------------------
(* The awaits of _handle_slash_resp *)

\* `await hook(ctx)` in _handle_hooks(command.metadata.hooks), outside the try
_handle_slash_resp_hooks(task, hook_res, e) ==
    LET res == _handle_hooks(task.command.hooks, task.i, hook_res)
        t1 == [task EXCEPT !.log = Append(@, Event("pre_hook", task.i,
                                   IF hook_res = "raise" THEN e ELSE hook_res,
                                   FALSE))]
    IN  IF res = "raised" THEN [t1 EXCEPT !.pc = "raised", !.cause = "pre_hook", !.exc = e]
        ELSE IF res = "True" THEN [t1 EXCEPT !.pc = "returned", !.cause = "exit"]
        ELSE IF res = "next" THEN [t1 EXCEPT !.i = @ + 1]
        ELSE [t1 EXCEPT !.pc = "callback"]

\* the callback step that runs the post-hooks although the callback raised
_handle_slash_resp_callback_then_hooks(task, outcome) ==
    LET t1 == [task EXCEPT !.log = Append(@, Event("callback", 0,
                                   outcome, FALSE))]
    IN  IF task.command.after_hooks = 0
        THEN IF outcome # "return" THEN [t1 EXCEPT !.pc = "try_handle", !.exc = outcome]
             ELSE [t1 EXCEPT !.pc = "returned"]
        ELSE [t1 EXCEPT !.pc = "after_hook", !.i = 1]

\* `await command.metadata.callback(ctx, **ctx.options)`, inside the try
_handle_slash_resp_callback(task, outcome) ==
    LET t1 == [task EXCEPT !.log = Append(@, Event("callback", 0,
                                   outcome, FALSE))]
    IN  IF outcome # "return" THEN [t1 EXCEPT !.pc = "try_handle", !.exc = outcome]
        ELSE IF task.command.after_hooks = 0 THEN [t1 EXCEPT !.pc = "returned"]
        ELSE [t1 EXCEPT !.pc = "after_hook", !.i = 1]

\* `await hook(ctx)` in _handle_hooks(command.metadata.after_hooks), inside the try
_handle_slash_resp_after_hooks(task, hook_res, e) ==
    LET res == _handle_hooks(task.command.after_hooks, task.i, hook_res)
        t1 == [task EXCEPT !.log = Append(@, Event("after_hook", task.i,
                                   IF hook_res = "raise" THEN e ELSE hook_res,
                                   FALSE))]
    IN  IF res = "raised" THEN [t1 EXCEPT !.pc = "try_handle", !.exc = e]
        ELSE IF res = "next" THEN [t1 EXCEPT !.i = @ + 1]
        ELSE [t1 EXCEPT !.pc = "returned"]

\* `handled = await command.client._command_error_handler.try_handle(exc, [exc, ctx])`
try_handle(task, handled) ==
    [task EXCEPT !.pc = "on_error", !.handled = handled,
                 !.log = Append(@, Event("try_handle", 0, task.exc, handled))]

\* `await command.client.on_crescent_command_error(exc, ctx, handled)`
on_crescent_command_error(task) ==
    [task EXCEPT !.pc = "returned",
                 !.log = Append(@, Event("on_crescent_command_error", 0,
                                         task.exc, task.handled))]

(* The awaits of _handle_autocomplete_resp *)

\* the delivery that completes the future and goes on to create_response too
_handle_autocomplete_resp_callback_both(task, outcome) ==
    LET t1 == [task EXCEPT !.log = Append(@, Event("autocomplete", 0,
                                   outcome, FALSE))]
    IN  IF outcome # "return" THEN [t1 EXCEPT !.pc = "ac_try_handle", !.exc = outcome]
        ELSE IF _unset_future(task.future) # None
        THEN [t1 EXCEPT !.pc = "create_response", !.future = "done",
                        !.log = Append(@, Ev("set_result"))]
        ELSE [t1 EXCEPT !.pc = "create_response"]

\* `res = await autocomplete(ctx, option)` and the delivery through the future
_handle_autocomplete_resp_callback(task, outcome) ==
    LET t1 == [task EXCEPT !.log = Append(@, Event("autocomplete", 0,
                                   outcome, FALSE))]
    IN  IF outcome # "return" THEN [t1 EXCEPT !.pc = "ac_try_handle", !.exc = outcome]
        ELSE IF _unset_future(task.future) # None
        THEN [t1 EXCEPT !.pc = "returned", !.future = "done",
                        !.log = Append(@, Ev("set_result"))]
        ELSE [t1 EXCEPT !.pc = "create_response"]

\* `await ctx.interaction.create_response(choices)`
create_response(task, outcome) ==
    LET t1 == [task EXCEPT !.log = Append(@, Event("create_response", 0,
                                   outcome, FALSE))]
    IN  IF outcome # "return" THEN [t1 EXCEPT !.pc = "ac_try_handle", !.exc = outcome]
        ELSE [t1 EXCEPT !.pc = "returned"]

\* `handled = await command.client._autocomplete_error_handler.try_handle(...)`
autocomplete_try_handle(task, handled) ==
    [task EXCEPT !.pc = "ac_on_error", !.handled = handled,
                 !.log = Append(@, Event("autocomplete_try_handle", 0, task.exc, handled))]

\* `await command.client.on_crescent_autocomplete_error(exc, ctx, option, handled)`
on_crescent_autocomplete_error(task) ==
    [task EXCEPT !.pc = "returned",
                 !.log = Append(@, Event("on_crescent_autocomplete_error", 0,
                                         task.exc, task.handled))]

---------------------------------------------------------------------------
(* CommandHandler.build_commands *)

\* A value of built_commands is a reference to an AppCommand object: either an
\* object the build created (ref = 0, held in app), or the descriptor that
\* handler number ref of the registry owns (command.metadata.app itself).
NoApp == AppCommand(CommandType_SLASH, None, None, None, NoneList, UNDEFINED, None)
Fresh(app) == [ref |-> 0, app |-> app]
Alias(k) == [ref |-> k, app |-> NoApp]
Deref(reg, v) == IF v.ref = 0 THEN v.app ELSE reg[v.ref].value.app

\* the state of a build: did it raise, the registry (whose handlers it may
\* write to) and built_commands
BuildState(reg) == [raised |-> FALSE, reg |-> reg, built |-> <<>>]

\* assignment to the option list of the object built_commands[i] refers to
SetOptions(st, i, options) ==
    IF st.built[i].value.ref = 0
    THEN [st EXCEPT !.built[i].value.app.options = options]
    ELSE [st EXCEPT !.reg[st.built[i].value.ref].value.app.options = options]

\* `if key not in built_commands: built_commands[key] = AppCommand(...)`
EnsureTopLevel(st, key, type, default_permission) ==
    IF IndexOf(st.built, key) # 0 THEN st
    ELSE [st EXCEPT !.built = Append(@,
              [key |-> key,
               value |-> Fresh(AppCommand(type, key.name, HIDDEN, key.guild_id,
                                          List(<<>>), default_permission, None))])]

\* the branch `if command.metadata.sub_group:`
build_sub_group(st, command) ==
    LET app == command.app
        key == Unique(command.group, app.type, app.guild_id, None, None)
        st1 == EnsureTopLevel(st, key, CommandType_SLASH, app.default_permission)
        i == IndexOf(st1.built, key)
        children == Deref(st1.reg, st1.built[i].value).options
        same == {j \in 1..Len(children.items) :
                    /\ children.items[j].name = command.sub_group
                    /\ children.items[j].description = HIDDEN
                    /\ children.items[j].type = OptionType_SUB_COMMAND_GROUP}
        j == IF same = {} THEN Len(children.items) + 1
             ELSE CHOOSE x \in same : \A y \in same : x <= y
        with_group == IF same = {}
                      THEN Append(children.items,
                                  CommandOption(command.sub_group, HIDDEN,
                                                OptionType_SUB_COMMAND_GROUP, List(<<>>)))
                      ELSE children.items
        leaf == CommandOption(app.name, app.description, OptionType_SUB_COMMAND,
                              app.options)
    IN  IF command.group = None THEN [st EXCEPT !.raised = TRUE]
        ELSE IF children.none THEN [st1 EXCEPT !.raised = TRUE]
        ELSE IF with_group[j].options.none THEN [st1 EXCEPT !.raised = TRUE]
        ELSE SetOptions(st1, i,
                 List([with_group EXCEPT ![j].options = List(Append(@.items, leaf))]))

\* the branch `if command.metadata.group:`
build_group(st, command) ==
    LET app == command.app
        key == Unique(command.group, app.type, app.guild_id, None, None)
        st1 == EnsureTopLevel(st, key, app.type, app.default_permission)
        i == IndexOf(st1.built, key)
        options == Deref(st1.reg, st1.built[i].value).options
    IN  IF options.none THEN [st1 EXCEPT !.raised = TRUE]
        ELSE SetOptions(st1, i,
                 List(Append(options.items,
                             CommandOption(app.name, app.description, app.type,
                                           app.options))))

\* the body of `for command in self.registry.values()` for handler number k
build_command(st0, k, dg) ==
    LET st == [st0 EXCEPT !.reg[k].value.app.guild_id = Or(@, dg)]
        command == st.reg[k].value
    IN  IF command.sub_group # None THEN build_sub_group(st, command)
        ELSE IF command.group # None THEN build_group(st, command)
        ELSE [st EXCEPT !.built = DictSet(@, from_meta_struct(command), Alias(k))]

RECURSIVE build_loop(_, _, _)
build_loop(st, k, dg) ==
    IF st.raised \/ k > Len(st.reg) THEN st
    ELSE build_loop(build_command(st, k, dg), k + 1, dg)

\* the call: whether it raised, the registry it leaves, the tuple it returns
build_commands(reg, dg) ==
    LET st == build_loop(BuildState(reg), 1, dg)
    IN  [raised |-> st.raised,
         reg |-> st.reg,
         tree |-> IF st.raised THEN <<>>
                  ELSE [i \in 1..Len(st.built) |-> Deref(st.reg, st.built[i].value)]]

---------------------------------------------------------------------------
(* Synchronisation with the remote service *)

\* AppCommand.__eq__: equality of the content, whatever the remote id
AppCommand_eq(a, b) ==
    /\ a.type = b.type
    /\ a.name = b.name
    /\ a.description = b.description
    /\ a.guild_id = b.guild_id
    /\ a.options = b.options
    /\ a.default_permission = b.default_permission

\* AppCommand.is_same_command: loose identity
is_same_command(a, b) ==
    /\ a.name = b.name
    /\ a.type = b.type
    /\ a.guild_id = b.guild_id

\* rest.fetch_application_commands(application, guild=scope)
fetch_application_commands(rem, scope) ==
    LET InScope(c) == c.guild_id = scope IN SelectSeq(rem, InScope)

hikari_to_crescent_command(command) ==
    AppCommand(CommandType_SLASH, command.name, command.description,
               command.guild_id, command.options, command.default_permission,
               command.id)

\* list.extend() takes exactly one argument: `commands.extend(*results)` raises
\* TypeError unless there is exactly one guild
get_discord_commands(rem, gs) ==
    LET commands == fetch_application_commands(rem, None)
        all == IF Len(gs) = 1
               THEN commands \o fetch_application_commands(rem, gs[1])
               ELSE commands
    IN  [raised |-> Len(gs) # 1,
         commands |-> IF Len(gs) # 1 THEN <<>>
                      ELSE [i \in 1..Len(all) |-> hikari_to_crescent_command(all[i])]]

\* the filter of to_delete with full equality in place of is_same_command
to_delete_not_equal(discord_commands, local_commands) ==
    LET Orphan(dc) == ~\E i \in 1..Len(local_commands) :
                          AppCommand_eq(dc, local_commands[i])
    IN  SelectSeq(discord_commands, Orphan)

\* `to_delete = filter(lambda dc: not any(dc.is_same_command(lc) ...), discord_commands)`
to_delete(discord_commands, local_commands) ==
    LET Orphan(dc) == ~\E i \in 1..Len(local_commands) :
                          is_same_command(dc, local_commands[i])
    IN  SelectSeq(discord_commands, Orphan)

\* `to_post = list(filter(lambda lc: lc not in discord_commands, local_commands))`
to_post(discord_commands, local_commands) ==
    LET New(lc) == ~\E i \in 1..Len(discord_commands) :
                       AppCommand_eq(lc, discord_commands[i])
    IN  SelectSeq(local_commands, New)

\* a call of the gather() of init: "delete" or "create", and its command
Call(op, command) == [op |-> op, command |-> command]

\* the calls that `gather(*chain(map(delete...), map(create...)))` issues
gather_calls(deleted, created) ==
    { Call("delete", deleted[i]) : i \in 1..Len(deleted) }
        \cup { Call("create", created[i]) : i \in 1..Len(created) }

\* rest.delete_application_command(command=id, guild=guild_id) at the service
delete_application_command(rem, command) ==
    LET Other(c) == c.id # command.id \/ c.guild_id # command.guild_id
    IN  SelectSeq(rem, Other)

\* rest.create_application_command(name, description, guild, options,
\* default_permission) at the service: a command of that name in that scope is
\* overwritten and keeps its id, otherwise a slash command with a new id is added
create_application_command(rem, command) ==
    LET posted == AppCommand(CommandType_SLASH, command.name, command.description,
                             command.guild_id,
                             IF Truthy(command.options) THEN command.options
                             ELSE NoneList,
                             command.default_permission, command.name)
        Same(c) == /\ c.name = posted.name
                   /\ c.type = posted.type
                   /\ c.guild_id = posted.guild_id
    IN  IF \E i \in 1..Len(rem) : Same(rem[i])
        THEN [i \in 1..Len(rem) |->
                 IF Same(rem[i]) THEN [posted EXCEPT !.id = rem[i].id] ELSE rem[i]]
        ELSE Append(rem, posted)

NoSync ==
    [status |-> "idle", discord_commands |-> <<>>, local_commands |-> <<>>,
     deleted |-> <<>>, created |-> <<>>]

\* a build_commands() call: the registry it started from, the number of
\* register() calls before it, and its result
BuildRecord(reg, n, b) ==
    [before |-> reg, registrations |-> n, raised |-> b.raised, tree |-> b.tree]

---------------------------------------------------------------------------
(* Actions *)

Register(command) ==
    /\ registrations < MaxRegistered
    /\ registry' = register(registry, command, default_guild)
    /\ registrations' = registrations + 1
    /\ UNCHANGED <<default_guild, guilds, allow_unknown_interactions, tasks,
                   remote, sync, builds, calls, payload>>

BuildCommands ==
    /\ Len(builds) < MaxBuilds
    /\ LET b == build_commands(registry, default_guild)
       IN  /\ registry' = b.reg
           /\ builds' = Append(builds, BuildRecord(registry, registrations, b))
    /\ UNCHANGED <<default_guild, guilds, allow_unknown_interactions, tasks,
                   remote, sync, registrations, calls, payload>>

\* CommandHandler.init(event), with the guilds of the cache as input
CommandHandlerInit(cached) ==
    /\ sync.status = "idle"
    /\ Len(builds) < MaxBuilds
    /\ LET gs == IF guilds # <<>> THEN guilds ELSE cached
           discord == get_discord_commands(remote, gs)
           b == build_commands(registry, default_guild)
       IN  /\ guilds' = gs
           /\ IF discord.raised
              THEN /\ sync' = [NoSync EXCEPT !.status = "fetch raised"]
                   /\ UNCHANGED <<registry, builds, calls>>
              ELSE /\ registry' = b.reg
                   /\ builds' = Append(builds, BuildRecord(registry, registrations, b))
                   /\ sync' = IF b.raised
                              THEN [NoSync EXCEPT !.status = "build raised",
                                                  !.discord_commands = discord.commands]
                              ELSE [status |-> "done",
                                    discord_commands |-> discord.commands,
                                    local_commands |-> b.tree,
                                    deleted |-> to_delete(discord.commands, b.tree),
                                    created |-> to_post(discord.commands, b.tree)]
                   /\ calls' = IF b.raised THEN {}
                               ELSE gather_calls(to_delete(discord.commands, b.tree),
                                                 to_post(discord.commands, b.tree))
    /\ UNCHANGED <<default_guild, allow_unknown_interactions, tasks, remote,
                   registrations, payload>>

\* one delete call of init's gather() completes at the service
DeleteApplicationCommand(call) ==
    /\ call \in calls
    /\ call.op = "delete"
    /\ remote' = delete_application_command(remote, call.command)
    /\ calls' = calls \ {call}
    /\ UNCHANGED <<registry, default_guild, guilds, allow_unknown_interactions,
                   tasks, sync, builds, registrations, payload>>

\* one create call of init's gather() completes at the service
CreateApplicationCommand(call) ==
    /\ call \in calls
    /\ call.op = "create"
    /\ remote' = create_application_command(remote, call.command)
    /\ calls' = calls \ {call}
    /\ UNCHANGED <<registry, default_guild, guilds, allow_unknown_interactions,
                   tasks, sync, builds, registrations, payload>>

Receive(t, interaction, future) ==
    /\ tasks[t].pc = "idle"
    /\ tasks' = [tasks EXCEPT ![t] = [IdleTask EXCEPT !.pc = "handle_resp",
                                                       !.interaction = interaction,
                                                       !.future = future]]
    /\ UNCHANGED <<registry, default_guild, guilds, allow_unknown_interactions,
                   remote, sync, builds, registrations, calls, payload>>

\* a step that takes the handler the task holds out of the registry
Step_popping(t, next) ==
    /\ tasks' = [tasks EXCEPT ![t] = next]
    /\ registry' = LET Others(e) == e.value # next.command
                   IN  SelectSeq(registry, Others)
    /\ UNCHANGED <<default_guild, guilds, allow_unknown_interactions,
                   remote, sync, builds, registrations, calls, payload>>

\* a step of task t that takes it to the task state next
Step(t, next) ==
    /\ tasks' = [tasks EXCEPT ![t] = next]
    /\ UNCHANGED <<registry, default_guild, guilds, allow_unknown_interactions,
                   remote, sync, builds, registrations, calls, payload>>

HandleResp(t) ==
    /\ tasks[t].pc = "handle_resp"
    /\ Step(t, handle_resp(tasks[t], registry, allow_unknown_interactions))

PreHook(t) ==
    /\ tasks[t].pc = "pre_hook"
    /\ \E hook_res \in HookResults, e \in Exceptions :
           /\ hook_res # "raise" => e = "ValueError"
           /\ Step(t, _handle_slash_resp_hooks(tasks[t], hook_res, e))

Callback(t) ==
    /\ tasks[t].pc = "callback"
    /\ \E outcome \in {"return"} \cup Exceptions :
           Step(t, _handle_slash_resp_callback(tasks[t], outcome))

AfterHook(t) ==
    /\ tasks[t].pc = "after_hook"
    /\ \E hook_res \in HookResults, e \in Exceptions :
           /\ hook_res # "raise" => e = "ValueError"
           /\ Step(t, _handle_slash_resp_after_hooks(tasks[t], hook_res, e))

TryHandle(t) ==
    /\ tasks[t].pc = "try_handle"
    /\ \E handled \in BOOLEAN : Step(t, try_handle(tasks[t], handled))

OnCommandError(t) ==
    /\ tasks[t].pc = "on_error"
    /\ Step(t, on_crescent_command_error(tasks[t]))

Autocomplete(t) ==
    /\ tasks[t].pc = "ac_callback"
    /\ \E outcome \in {"return"} \cup Exceptions :
           Step(t, _handle_autocomplete_resp_callback(tasks[t], outcome))

CreateResponse(t) ==
    /\ tasks[t].pc = "create_response"
    /\ \E outcome \in {"return"} \cup Exceptions :
           Step(t, create_response(tasks[t], outcome))

AutocompleteTryHandle(t) ==
    /\ tasks[t].pc = "ac_try_handle"
    /\ \E handled \in BOOLEAN : Step(t, autocomplete_try_handle(tasks[t], handled))

OnAutocompleteError(t) ==
    /\ tasks[t].pc = "ac_on_error"
    /\ Step(t, on_crescent_autocomplete_error(tasks[t]))

---------------------------------------------------------------------------
(* Inputs *)

\* Handlers declared for the dispatch: with hooks and autocomplete callbacks
WithHooks(command, hooks, after_hooks, autocomplete) ==
    [command EXCEPT !.hooks = hooks, !.after_hooks = after_hooks,
                    !.autocomplete = autocomplete]

DispatchHandlers ==
    { WithHooks(register_command("greet", None, None, None, None, None, NoneList),
                MaxHooks, MaxHooks, {"name"}),
      WithHooks(register_command("greet_g1", "G1", None, None, "greet", None, NoneList),
                1, 0, {}),
      WithHooks(register_command("social_greet", None, "social", None, "greet", None,
                                 NoneList),
                0, 1, {"name"}),
      WithHooks(register_command("social_more_greet", None, "social", "more", "greet",
                                 None, NoneList),
                0, 0, {}),
      [WithHooks(register_command("profile", None, None, None, None, None, NoneList),
                 0, 0, {}) EXCEPT !.app.type = CommandType_USER] }

Interaction(kind, command_name, command_type, guild_id, options, resolved) ==
    [kind |-> kind, command_name |-> command_name, command_type |-> command_type,
     guild_id |-> guild_id, options |-> options, resolved |-> resolved]

NameAda(is_focused) == Leaf("name", OptionType_STRING, "Ada", is_focused)

Interactions ==
    { Interaction("other", "greet", CommandType_SLASH, "G1", NoneList, NoResolved),
      Interaction("command", "greet", CommandType_SLASH, "G1", NoneList, NoResolved),
      Interaction("command", "greet", CommandType_SLASH, "G2",
                  List(<<NameAda(FALSE)>>), NoResolved),
      Interaction("command", "ping", CommandType_SLASH, None, NoneList, NoResolved),
      Interaction("command", "social", CommandType_SLASH, None,
                  List(<<Nested("greet", OptionType_SUB_COMMAND,
                                List(<<NameAda(FALSE)>>))>>), NoResolved),
      Interaction("command", "social", CommandType_SLASH, "G1",
                  List(<<Nested("more", OptionType_SUB_COMMAND_GROUP,
                                List(<<Nested("greet", OptionType_SUB_COMMAND,
                                              NoneList)>>))>>), NoResolved),
      Interaction("command", "social", CommandType_SLASH, "G1",
                  List(<<Nested("more", OptionType_SUB_COMMAND_GROUP, NoneList)>>),
                  NoResolved),
      Interaction("command", "greet", CommandType_SLASH, None,
                  List(<<Leaf("who", OptionType_ROLE, "r1", FALSE)>>),
                  [NoResolved EXCEPT !.none = FALSE, !.roles = <<"r2">>]),
      Interaction("command", "profile", CommandType_USER, None, NoneList,
                  [NoResolved EXCEPT !.none = FALSE, !.members = <<"m1">>]),
      Interaction("command", "profile", CommandType_USER, None, NoneList, NoResolved),
      Interaction("autocomplete", "greet", CommandType_SLASH, "G2",
                  List(<<NameAda(TRUE)>>), NoResolved),
      Interaction("autocomplete", "greet", CommandType_SLASH, "G2",
                  List(<<NameAda(FALSE)>>), NoResolved),
      Interaction("autocomplete", "greet", CommandType_SLASH, None,
                  List(<<Leaf("other", OptionType_STRING, "x", TRUE)>>), NoResolved),
      Interaction("autocomplete", "social", CommandType_SLASH, None,
                  List(<<Nested("greet", OptionType_SUB_COMMAND,
                                List(<<NameAda(TRUE)>>))>>), NoResolved) }

Futures == {None, "pending", "done"}

\* the path and options the router returns for an interaction without options
NoPath ==
    [raised |-> FALSE, command_name |-> None, group |-> None, sub_group |-> None,
     options |-> NoneList]

\* a payload none of the parsers was applied to
NoPayload ==
    [interaction |-> NoInteraction, applied |-> {}, data |-> NoPath,
     option |-> NoOption, options |-> [raised |-> FALSE, kwargs |-> EmptyKwargs]]

---------------------------------------------------------------------------
(* The dispatch of interactions *)

InitDispatch ==
    /\ registry = <<>>
    /\ default_guild \in {None, "G1"}
    /\ guilds = <<>>
    /\ allow_unknown_interactions \in BOOLEAN
    /\ tasks = [t \in Tasks |-> IdleTask]
    /\ remote = <<>>
    /\ sync = NoSync
    /\ builds = <<>>
    /\ registrations = 0
    /\ calls = {}
    /\ payload = NoPayload

NextDispatch ==
    \/ \E command \in DispatchHandlers : Register(command)
    \/ \E t \in Tasks, interaction \in Interactions, future \in Futures :
           Receive(t, interaction, future)
    \/ \E t \in Tasks : HandleResp(t)
    \/ \E t \in Tasks : PreHook(t)
    \/ \E t \in Tasks : Callback(t)
    \/ \E t \in Tasks : AfterHook(t)
    \/ \E t \in Tasks : TryHandle(t)
    \/ \E t \in Tasks : OnCommandError(t)
    \/ \E t \in Tasks : Autocomplete(t)
    \/ \E t \in Tasks : CreateResponse(t)
    \/ \E t \in Tasks : AutocompleteTryHandle(t)
    \/ \E t \in Tasks : OnAutocompleteError(t)

SpecDispatch == InitDispatch /\ [][NextDispatch]_vars

---------------------------------------------------------------------------
(* The registry: registration, builds and synchronisation *)

AnOption == CommandOption("x", "an option", OptionType_STRING, NoneList)

RegistryHandlers ==
    { register_command("foo", None, None, None, None, None, NoneList),
      register_command("foo", None, None, None, None, None, List(<<>>)),
      register_command("foo", None, None, None, None, None, List(<<AnOption>>)),
      register_command("bar", None, "foo", None, None, None, NoneList),
      register_command("baz", None, "foo", None, None, None, List(<<AnOption>>)),
      register_command("bar", "G1", "foo", None, None, None, NoneList),
      register_command("qux", None, "foo", "sg", None, None, NoneList),
      register_command("quux", None, "foo", "sg", None, None, NoneList) }

RemoteFoo == AppCommand(CommandType_SLASH, "foo", "ZWSP", None, NoneList, UNDEFINED, "id1")
RemoteFooChanged == [RemoteFoo EXCEPT !.description = "old text"]
RemoteOld == AppCommand(CommandType_SLASH, "old", "ZWSP", None, NoneList, UNDEFINED, "id2")
RemoteOldG1 == AppCommand(CommandType_SLASH, "old", "ZWSP", "G1", NoneList, UNDEFINED, "id3")

Remotes ==
    { <<>>, <<RemoteFoo, RemoteOld>>, <<RemoteFooChanged, RemoteOldG1>> }

GuildConfigs == { <<>>, <<"G1">>, <<"G1", "G2">> }

InitRegistry ==
    /\ registry = <<>>
    /\ default_guild \in {None, "G1"}
    /\ guilds \in GuildConfigs
    /\ allow_unknown_interactions = FALSE
    /\ tasks = [t \in Tasks |-> IdleTask]
    /\ remote \in Remotes
    /\ sync = NoSync
    /\ builds = <<>>
    /\ registrations = 0
    /\ calls = {}
    /\ payload = NoPayload

NextRegistry ==
    \/ \E command \in RegistryHandlers : Register(command)
    \/ BuildCommands
    \/ \E cached \in GuildConfigs : CommandHandlerInit(cached)
    \/ \E call \in calls : DeleteApplicationCommand(call)
    \/ \E call \in calls : CreateApplicationCommand(call)

SpecRegistry == InitRegistry /\ [][NextRegistry]_vars

---------------------------------------------------------------------------
(* The parsers of handle_resp.py on bounded payloads *)

\* _get_crescent_command_data(interaction) on the payload
ResolvePath ==
    /\ "_get_crescent_command_data" \notin payload.applied
    /\ payload' = [payload EXCEPT
                       !.applied = @ \cup {"_get_crescent_command_data"},
                       !.data = _get_crescent_command_data(payload.interaction)]
    /\ UNCHANGED <<registry, default_guild, guilds, allow_unknown_interactions,
                   tasks, remote, sync, builds, registrations, calls>>

\* _get_option_recursive(ctx.interaction.options) on the payload of an
\* autocomplete interaction
FindFocused ==
    /\ payload.interaction.kind = "autocomplete"
    /\ "_get_option_recursive" \notin payload.applied
    /\ payload' = [payload EXCEPT
                       !.applied = @ \cup {"_get_option_recursive"},
                       !.option = _get_option_recursive(payload.interaction.options.items)]
    /\ UNCHANGED <<registry, default_guild, guilds, allow_unknown_interactions,
                   tasks, remote, sync, builds, registrations, calls>>

\* _context_from_interaction_resp(ctx_t, interaction) on the payload
Materialize ==
    /\ payload.interaction.kind \in {"command", "autocomplete"}
    /\ "_context_from_interaction_resp" \notin payload.applied
    /\ payload' = [payload EXCEPT
                       !.applied = @ \cup {"_context_from_interaction_resp"},
                       !.options = _context_from_interaction_resp(payload.interaction)]
    /\ UNCHANGED <<registry, default_guild, guilds, allow_unknown_interactions,
                   tasks, remote, sync, builds, registrations, calls>>

MaxLeaves == 2          \* leaf options in one option list of a payload

LeafOptions ==
    { Leaf("name", OptionType_STRING, "Ada", f) : f \in BOOLEAN }
        \cup { Leaf("who", OptionType_ROLE, "i1", f) : f \in BOOLEAN }

LeafLists == UNION { [1..n -> LeafOptions] : n \in 0..MaxLeaves }

OptionLists == {NoneList} \cup { List(l) : l \in LeafLists }

SubCommands == { Nested("greet", OptionType_SUB_COMMAND, o) : o \in OptionLists }

\* option trees of one, two and three levels
OptionTrees ==
    OptionLists
        \cup { List(<<c>>) : c \in SubCommands }
        \cup { List(<<Nested("more", OptionType_SUB_COMMAND_GROUP, g)>>) :
                   g \in {NoneList, List(<<>>)} \cup { List(<<c>>) : c \in SubCommands } }

RouterPayloads ==
    { Interaction(kind,
                  IF Truthy(o) /\ o.items[1].type \in {OptionType_SUB_COMMAND,
                                                       OptionType_SUB_COMMAND_GROUP}
                  THEN "social" ELSE "greet",
                  CommandType_SLASH, None, o, NoResolved) :
          kind \in {"command", "autocomplete"}, o \in OptionTrees }
        \ { Interaction("autocomplete", "greet", CommandType_SLASH, None, NoneList,
                        NoResolved) }

Ids == { <<>>, <<"i1">>, <<"i2">> }

\* resolved tables whose sections for the option type t hold no id, the id of
\* the option, or another id
ResolvedFor(t) ==
    {NoResolved}
        \cup { [none |-> FALSE,
                roles |-> IF t \in {OptionType_ROLE, OptionType_MENTIONABLE,
                                    OptionType_STRING} THEN a ELSE <<>>,
                members |-> IF t = OptionType_USER THEN a ELSE <<>>,
                users |-> IF t = OptionType_USER THEN b ELSE <<>>,
                channels |-> IF t = OptionType_CHANNEL THEN a ELSE <<>>,
                attachments |-> IF t = OptionType_ATTACHMENT THEN a ELSE <<>>,
                messages |-> <<>>] : a, b \in Ids }

ReferenceTypes ==
    {OptionType_ROLE, OptionType_USER, OptionType_CHANNEL, OptionType_ATTACHMENT}

ReferencePayloads ==
    UNION { { Interaction(kind, "greet", CommandType_SLASH, None,
                          List(<<Leaf("who", t, "i1", kind = "autocomplete")>>), r) :
                  kind \in {"command", "autocomplete"}, r \in ResolvedFor(t) } :
              t \in ReferenceTypes \cup {OptionType_MENTIONABLE, OptionType_STRING} }

\* what the service sends for a user-target and for a message-target command
TargetPayloads ==
    { Interaction("command", "profile", CommandType_USER, None, o,
                  [NoResolved EXCEPT !.none = n, !.members = m, !.users = u]) :
          o \in {NoneList, List(<<NameAda(FALSE)>>)}, n \in BOOLEAN,
          m \in {<<>>, <<"i1">>}, u \in {<<>>, <<"i1">>, <<"i2">>} }
        \cup { Interaction("command", "quote", CommandType_MESSAGE, None, o,
                           [NoResolved EXCEPT !.none = n, !.messages = m]) :
                   o \in {NoneList, List(<<NameAda(FALSE)>>)}, n \in BOOLEAN,
                   m \in {<<>>, <<"m1">>} }

Payloads == RouterPayloads \cup ReferencePayloads \cup TargetPayloads

PayloadHandlers ==
    << WithHooks(register_command("greet", None, None, None, None, None, NoneList),
                 0, 0, {"name", "who"}),
       WithHooks(register_command("social_greet", None, "social", None, "greet", None,
                                  NoneList),
                 0, 0, {"name"}),
       WithHooks(register_command("social_more_greet", None, "social", "more", "greet",
                                  None, NoneList),
                 0, 0, {"name", "who"}),
       [WithHooks(register_command("profile", None, None, None, None, None, NoneList),
                  0, 0, {}) EXCEPT !.app.type = CommandType_USER],
       [WithHooks(register_command("quote", None, None, None, None, None, NoneList),
                  0, 0, {}) EXCEPT !.app.type = CommandType_MESSAGE] >>

\* the registry after register() of each of the handlers
RECURSIVE Registered(_, _)
Registered(commands, dg) ==
    IF commands = <<>> THEN <<>>
    ELSE register(Registered(SubSeq(commands, 1, Len(commands) - 1), dg),
                  commands[Len(commands)], dg)

InitPayload ==
    /\ registry = Registered(PayloadHandlers, None)
    /\ default_guild = None
    /\ guilds = <<>>
    /\ allow_unknown_interactions = FALSE
    /\ tasks = [t \in Tasks |-> IdleTask]
    /\ remote = <<>>
    /\ sync = NoSync
    /\ builds = <<>>
    /\ registrations = Len(PayloadHandlers)
    /\ calls = {}
    /\ payload \in { [NoPayload EXCEPT !.interaction = p] : p \in Payloads }

NextPayload ==
    \/ ResolvePath
    \/ FindFocused
    \/ Materialize
    \/ \E t \in Tasks, future \in Futures : Receive(t, payload.interaction, future)
    \/ \E t \in Tasks : HandleResp(t)
    \/ \E t \in Tasks : Callback(t)
    \/ \E t \in Tasks : TryHandle(t)
    \/ \E t \in Tasks : OnCommandError(t)
    \/ \E t \in Tasks : Autocomplete(t)
    \/ \E t \in Tasks : CreateResponse(t)
    \/ \E t \in Tasks : AutocompleteTryHandle(t)
    \/ \E t \in Tasks : OnAutocompleteError(t)

SpecPayload == InitPayload /\ [][NextPayload]_vars

---------------------------------------------------------------------------
(* Several handle_resp coroutines in flight, with register() between their
   steps *)

ConcurrentTasks == {"t1", "t2"}

ConcurrentHandlers ==
    { WithHooks(register_command("greet", None, None, None, None, None, NoneList),
                1, 0, {"name"}),
      WithHooks(register_command("social_greet", None, "social", None, "greet", None,
                                 NoneList),
                0, 1, {}) }

ConcurrentInteractions ==
    { Interaction("command", "greet", CommandType_SLASH, None,
                  List(<<NameAda(FALSE)>>), NoResolved),
      Interaction("command", "social", CommandType_SLASH, None,
                  List(<<Nested("greet", OptionType_SUB_COMMAND, NoneList)>>),
                  NoResolved),
      Interaction("autocomplete", "greet", CommandType_SLASH, None,
                  List(<<NameAda(TRUE)>>), NoResolved) }

InitConcurrent ==
    /\ registry = <<>>
    /\ default_guild = None
    /\ guilds = <<>>
    /\ allow_unknown_interactions = FALSE
    /\ tasks = [t \in ConcurrentTasks |-> IdleTask]
    /\ remote = <<>>
    /\ sync = NoSync
    /\ builds = <<>>
    /\ registrations = 0
    /\ calls = {}
    /\ payload = NoPayload

NextConcurrent ==
    \/ \E command \in ConcurrentHandlers : Register(command)
    \/ \E t \in ConcurrentTasks, interaction \in ConcurrentInteractions,
           future \in {None, "pending"} : Receive(t, interaction, future)
    \/ \E t \in ConcurrentTasks : HandleResp(t)
    \/ \E t \in ConcurrentTasks : PreHook(t)
    \/ \E t \in ConcurrentTasks : Callback(t)
    \/ \E t \in ConcurrentTasks : AfterHook(t)
    \/ \E t \in ConcurrentTasks : TryHandle(t)
    \/ \E t \in ConcurrentTasks : OnCommandError(t)
    \/ \E t \in ConcurrentTasks : Autocomplete(t)
    \/ \E t \in ConcurrentTasks : CreateResponse(t)
    \/ \E t \in ConcurrentTasks : AutocompleteTryHandle(t)
    \/ \E t \in ConcurrentTasks : OnAutocompleteError(t)

SpecConcurrent == InitConcurrent /\ [][NextConcurrent]_vars

---------------------------------------------------------------------------
(* Properties of the dispatch *)

Finished(task) == task.pc \in {"returned", "raised"}

Positions(log, evs) == {p \in 1..Len(log) : log[p].ev \in evs}

\* C1: when a pre-hook returns a result that signals exit, the interaction ends
\* there: no later pre-hook, no callback, no post-hook and no error report follow.
C1_PreHookExitEndsInteraction ==
    \A t \in Tasks :
        \A p \in 1..Len(tasks[t].log) :
            (tasks[t].log[p].ev = "pre_hook" /\ tasks[t].log[p].res = "exit")
                => /\ p = Len(tasks[t].log)
                   /\ tasks[t].pc = "returned"

\* an exit in the first pre-hook of a handler that has more hooks and post-hooks
C1_Witness ==
    \E t \in Tasks :
        /\ tasks[t].pc = "returned"
        /\ tasks[t].log = <<Event("pre_hook", 1, "exit", FALSE)>>
        /\ tasks[t].command.hooks >= 2
        /\ tasks[t].command.after_hooks >= 1

\* the events of a log where user code raised
Raises(log) ==
    {p \in Positions(log, {"pre_hook", "callback", "after_hook", "autocomplete",
                           "create_response"}) : log[p].res \in Exceptions}

\* the chain was offered exception exc and then the terminal callback got it,
\* once, with the chain's result as handled flag
ReportedOnce(log, chain, terminal, exc) ==
    /\ Cardinality(Positions(log, {terminal})) = 1
    /\ Cardinality(Positions(log, {chain})) = 1
    /\ \E p \in Positions(log, {chain}), q \in Positions(log, {terminal}) :
           /\ p < q
           /\ log[p].res = exc
           /\ log[q].res = exc
           /\ log[q].handled = log[p].handled

\* C2: an interaction in which a pre-hook, the callback, a post-hook, the
\* autocomplete callback or the sending of the choices raised has, once finished,
\* offered the exception to the matching chain and then called the terminal
\* error callback exactly once with that exception and the chain's result.
C2_EveryRaiseReportedOnce ==
    \A t \in Tasks :
        (Finished(tasks[t]) /\ Raises(tasks[t].log) # {})
            => \E p \in Raises(tasks[t].log) :
                   IF tasks[t].interaction.kind = "autocomplete"
                   THEN ReportedOnce(tasks[t].log, "autocomplete_try_handle",
                                     "on_crescent_autocomplete_error",
                                     tasks[t].log[p].res)
                   ELSE ReportedOnce(tasks[t].log, "try_handle",
                                     "on_crescent_command_error", tasks[t].log[p].res)

\* C3: once the handler is found, an exception of a pre-hook, of the callback, of
\* a post-hook, of the autocomplete callback or of the lookup of the per-option
\* autocomplete callback never leaves handle_resp.
C3_NoExceptionLeavesHandleResp ==
    \A t \in Tasks :
        tasks[t].pc = "raised" => tasks[t].cause \in {"router", "context"}

\* the identity the router gives an interaction, under guild scope g
KeyOf(interaction, g) ==
    LET data == _get_crescent_command_data(interaction)
    IN  Unique(data.command_name, interaction.command_type, g, data.group,
               data.sub_group)

Routable(interaction) ==
    /\ interaction.kind \in {"command", "autocomplete"}
    /\ ~_get_crescent_command_data(interaction).raised

Holds(reg, key) == \E i \in 1..Len(reg) : reg[i].key = key

Misses(reg, interaction) ==
    /\ ~Holds(reg, KeyOf(interaction, interaction.guild_id))
    /\ ~Holds(reg, KeyOf(interaction, None))

\* task t runs handle_resp up to its first await in this step
Looks(t) == tasks[t].pc = "handle_resp" /\ tasks'[t].pc # "handle_resp"

\* C4: when neither the guild-scoped key nor the global key is registered,
\* handle_resp returns at once: nothing is called but, unless
\* allow_unknown_interactions is set, the logger.
C4_MissCallsNothing ==
    [][\A t \in Tasks :
          /\ (Looks(t) /\ Routable(tasks[t].interaction)
                       /\ Misses(registry, tasks[t].interaction))
                => /\ tasks'[t].pc = "returned"
                   /\ tasks'[t].log = IF allow_unknown_interactions THEN <<>>
                                      ELSE <<Ev("warning")>>
          /\ tasks[t].pc = "returned" => tasks'[t] = tasks[t]]_vars

\* a miss while the registry holds other handlers, with and without the warning
C4_Witness ==
    \E t \in Tasks :
        /\ tasks[t].cause = "miss"
        /\ tasks[t].pc = "returned"
        /\ allow_unknown_interactions
        /\ tasks[t].interaction.kind = "autocomplete"
        /\ registry # <<>>

\* C5: the lookup returns the handler under the guild-scoped key when there is
\* one, else the handler under the global key when there is one, else nothing.
C5_GuildScopedThenGlobal ==
    [][\A t \in Tasks :
          (Looks(t) /\ Routable(tasks[t].interaction))
              => LET scoped == KeyOf(tasks[t].interaction, tasks[t].interaction.guild_id)
                     global == KeyOf(tasks[t].interaction, None)
                 IN  IF Holds(registry, scoped)
                     THEN /\ tasks'[t].cause # "miss"
                          /\ \E i \in 1..Len(registry) :
                                 /\ registry[i].key = scoped
                                 /\ tasks'[t].command = registry[i].value
                     ELSE IF Holds(registry, global)
                     THEN /\ tasks'[t].cause # "miss"
                          /\ \E i \in 1..Len(registry) :
                                 /\ registry[i].key = global
                                 /\ tasks'[t].command = registry[i].value
                     ELSE tasks'[t].cause = "miss"]_vars

\* a guild handler found while a global handler of the same name is registered
C5_Witness ==
    \E t \in Tasks :
        /\ tasks[t].command.callback = "greet_g1"
        /\ tasks[t].interaction.guild_id = "G1"
        /\ Holds(registry, Unique("greet", CommandType_SLASH, None, None, None))
        /\ Holds(registry, Unique("greet", CommandType_SLASH, "G1", None, None))

---------------------------------------------------------------------------
(* Properties of the registry *)

Count(seq, Test(_)) == Cardinality({i \in 1..Len(seq) : Test(seq[i])})

\* the remote commands of the scopes the handler is configured for, as they
\* were when init ran
InScope ==
    LET Known(c) == c.guild_id = None \/ Contains(guilds, c.guild_id)
        scoped == SelectSeq(remote, Known)
    IN  IF sync.status \in {"done", "build raised"} THEN sync.discord_commands
        ELSE [i \in 1..Len(scoped) |-> hikari_to_crescent_command(scoped[i])]

\* the local commands of the synchronisation: those it built, or, when it
\* stopped before building, those the registry builds
LocalCommands ==
    IF sync.status = "done" THEN sync.local_commands
    ELSE IF sync.status = "fetch raised"
    THEN build_commands(registry, default_guild).tree
    ELSE <<>>

\* the calls are exactly the difference of remote and local
ExactDiff(discord_commands, local_commands) ==
    /\ \A i \in 1..Len(sync.created) :
           ~\E j \in 1..Len(discord_commands) :
               AppCommand_eq(sync.created[i], discord_commands[j])
    /\ \A i \in 1..Len(sync.deleted) :
           ~\E j \in 1..Len(local_commands) :
               is_same_command(sync.deleted[i], local_commands[j])
    /\ \A j \in 1..Len(discord_commands) :
           (~\E i \in 1..Len(local_commands) :
                is_same_command(discord_commands[j], local_commands[i]))
               => LET Same(c) == c = discord_commands[j]
                  IN  Count(sync.deleted, Same) = 1
    /\ \A i \in 1..Len(local_commands) :
           (~\E j \in 1..Len(discord_commands) :
                AppCommand_eq(local_commands[i], discord_commands[j]))
               => LET Same(c) == c = local_commands[i]
                  IN  Count(sync.created, Same) = 1

\* C6: after CommandHandler.init no local command equal to a remote one was
\* created, no remote command loosely matching a local one was deleted, every
\* other remote command was deleted once and every other local command was
\* created once.
C6_SyncIsExactDiff ==
    sync.status # "idle" => ExactDiff(InScope, LocalCommands)

\* what holds of C6: the same, of the synchronisations that got their remote
\* commands and built their local ones
C6_ExactDiffOnceFetchedAndBuilt ==
    sync.status = "done" => ExactDiff(sync.discord_commands, sync.local_commands)

Plain(command) == command.group = None /\ command.sub_group = None

\* C7: every build returns, for each registered handler without group and
\* sub_group, exactly one descriptor, equal to the handler's own descriptor as
\* it was before the build.
C7_PlainHandlersUnchanged ==
    \A k \in 1..Len(builds) :
        \A i \in 1..Len(builds[k].before) :
            Plain(builds[k].before[i].value)
                => /\ ~builds[k].raised
                   /\ LET Own(d) == d = builds[k].before[i].value.app
                      IN  Count(builds[k].tree, Own) = 1

\* the handlers of a registry with a given group, sub_group and scope, in
\* registry order
Members(reg, group, sub_group, type, guild_id) ==
    LET In(e) == /\ e.value.group = group
                 /\ e.value.sub_group = sub_group
                 /\ e.value.app.type = type
                 /\ e.value.app.guild_id = guild_id
    IN  SelectSeq(reg, In)

\* the sub-command option that stands for a handler
SubCommandOf(command) ==
    CommandOption(command.app.name, command.app.description, OptionType_SUB_COMMAND,
                  command.app.options)

OptionsOfType(options, type) ==
    LET Is(o) == o.type = type
    IN  IF options.none THEN <<>> ELSE SelectSeq(options.items, Is)

TopLevel(tree, name, type, guild_id) ==
    LET Is(d) == d.name = name /\ d.type = type /\ d.guild_id = guild_id
    IN  SelectSeq(tree, Is)

\* C8: every build returns, for the handlers that share a group and have no
\* sub_group, exactly one descriptor named after the group, whose sub-command
\* options are one per such handler, in registration order.
C8_OneDescriptorPerGroup ==
    \A k \in 1..Len(builds) :
        \A i \in 1..Len(builds[k].before) :
            LET command == builds[k].before[i].value
                members == Members(builds[k].before, command.group, None,
                                   command.app.type, command.app.guild_id)
                top == TopLevel(builds[k].tree, command.group, command.app.type,
                                command.app.guild_id)
            IN  (command.group # None /\ command.sub_group = None)
                    => /\ ~builds[k].raised
                       /\ Len(top) = 1
                       /\ OptionsOfType(top[1].options, OptionType_SUB_COMMAND)
                              = [j \in 1..Len(members) |-> SubCommandOf(members[j].value)]

\* C9: every build returns, for each (group, sub_group) pair of a scope, exactly
\* one descriptor for the group, with exactly one sub-command-group option for
\* the sub_group, which holds exactly one sub-command per handler of the pair.
C9_OneSubCommandGroupPerPair ==
    \A k \in 1..Len(builds) :
        \A i \in 1..Len(builds[k].before) :
            LET command == builds[k].before[i].value
                members == Members(builds[k].before, command.group, command.sub_group,
                                   command.app.type, command.app.guild_id)
                top == TopLevel(builds[k].tree, command.group, command.app.type,
                                command.app.guild_id)
                IsGroup(o) == /\ o.type = OptionType_SUB_COMMAND_GROUP
                              /\ o.name = command.sub_group
                groups == IF top[1].options.none THEN <<>>
                          ELSE SelectSeq(top[1].options.items, IsGroup)
            IN  (command.group # None /\ command.sub_group # None)
                    => /\ ~builds[k].raised
                       /\ Len(top) = 1
                       /\ Len(groups) = 1
                       /\ Len(groups[1].options.items) = Len(members)
                       /\ \A j \in 1..Len(members) :
                              LET Own(o) == o = SubCommandOf(members[j].value)
                              IN  Count(groups[1].options.items, Own) = 1

\* C10: two builds with no register() call between them return the same tree.
C10_BuildIdempotent ==
    \A k1, k2 \in 1..Len(builds) :
        builds[k1].registrations = builds[k2].registrations
            => /\ builds[k1].raised = builds[k2].raised
               /\ builds[k1].tree = builds[k2].tree

\* C11: for any number of configured guilds the fetch of CommandHandler.init
\* completes without error and returns the normalized descriptor of every
\* remote command of the global scope and of every configured guild.
C11_FetchReturnsEveryScope ==
    [][(sync.status = "idle" /\ sync'.status # "idle")
          => /\ sync'.status # "fetch raised"
             /\ \A i \in 1..Len(remote) :
                    (remote[i].guild_id = None
                        \/ \E g \in 1..Len(guilds') : guilds'[g] = remote[i].guild_id)
                        => \E j \in 1..Len(sync'.discord_commands) :
                               sync'.discord_commands[j]
                                   = hikari_to_crescent_command(remote[i])]_vars

---------------------------------------------------------------------------
(* Router, focus search and materializer *)

SocialGreetAda ==
    Interaction("command", "social", CommandType_SLASH, None,
                List(<<Nested("greet", OptionType_SUB_COMMAND,
                              List(<<NameAda(FALSE)>>))>>), NoResolved)

\* C12: the router returns (interaction name, None, None, the options as given)
\* when the option list is absent or empty or starts with a leaf; (option name,
\* interaction name, None, the option's options) when it starts with a
\* sub-command; (nested sub-command's name, interaction name, option name, the
\* nested sub-command's options) when it starts with a sub-command-group.  The
\* interaction "social" with sub-command "greet" and leaf name="Ada" reaches the
\* handler registered as greet in group social with the options {name: Ada}.
C12_RouterPaths ==
    /\ "_get_crescent_command_data" \in payload.applied
           => LET interaction == payload.interaction
                  options == interaction.options
                  first == options.items[1]
                  data == payload.data
              IN  CASE options.none \/ options.items = <<>>
                           \/ first.type \notin {OptionType_SUB_COMMAND,
                                                  OptionType_SUB_COMMAND_GROUP}
                         -> /\ ~data.raised
                            /\ data.command_name = interaction.command_name
                            /\ data.group = None
                            /\ data.sub_group = None
                            /\ data.options = options
                    [] first.type = OptionType_SUB_COMMAND
                         -> /\ ~data.raised
                            /\ data.command_name = first.name
                            /\ data.group = interaction.command_name
                            /\ data.sub_group = None
                            /\ data.options = first.options
                    [] /\ first.type = OptionType_SUB_COMMAND_GROUP
                       /\ ~first.options.none
                       /\ first.options.items # <<>>
                         -> /\ ~data.raised
                            /\ data.command_name = first.options.items[1].name
                            /\ data.group = interaction.command_name
                            /\ data.sub_group = first.name
                            /\ data.options = first.options.items[1].options
                    [] OTHER -> TRUE
    /\ \A t \in Tasks :
           (tasks[t].interaction = SocialGreetAda
                /\ tasks[t].pc \notin {"idle", "handle_resp"})
               => /\ tasks[t].command.callback = "social_greet"
                  /\ tasks[t].command.app.name = "greet"
                  /\ tasks[t].command.group = "social"
                  /\ tasks[t].command.sub_group = None
                  /\ tasks[t].options = [n \in {"name"} |-> Raw("Ada")]

\* the interaction "social" / "greet" / name="Ada" was routed and its handler
\* is about to be called
C12_Witness ==
    \E t \in Tasks :
        /\ tasks[t].interaction = SocialGreetAda
        /\ tasks[t].pc = "callback"
        /\ "_get_crescent_command_data" \in payload.applied
        /\ payload.data.command_name = "greet"
        /\ payload.data.group = "social"

\* a sub-command-group with one sub-command with two leaf options was routed
C12_SubGroupRouted ==
    /\ "_get_crescent_command_data" \in payload.applied
    /\ payload.data.command_name = "greet"
    /\ payload.data.group = "social"
    /\ payload.data.sub_group = "more"
    /\ Len(payload.data.options.items) = 2

\* the options of a tree, parents before their children, in list order
RECURSIVE PreOrder(_)
PreOrder(options) ==
    IF options = <<>> THEN <<>>
    ELSE <<Head(options)>>
             \o (IF Head(options).options.none THEN <<>>
                 ELSE PreOrder(Head(options).options.items))
             \o PreOrder(Tail(options))

Focused(options) ==
    LET IsFocused(o) == o.is_focused IN SelectSeq(PreOrder(options), IsFocused)

\* C13: on option trees of up to three levels the focus search returns none
\* when no option is flagged focused and otherwise the first flagged option in
\* the order the tree is walked, whatever its depth; an autocomplete
\* interaction without a focused option calls no autocomplete callback, sends
\* no response and reports no error.
C13_FocusSearch ==
    /\ "_get_option_recursive" \in payload.applied
           => LET focused == Focused(payload.interaction.options.items)
              IN  IF focused = <<>>
                  THEN ~payload.option.found
                  ELSE payload.option = [found |-> TRUE, option |-> focused[1]]
    /\ \A t \in Tasks :
           (tasks[t].interaction.kind = "autocomplete"
                /\ Focused(tasks[t].interaction.options.items) = <<>>)
               => /\ tasks[t].log = <<>>
                  /\ tasks[t].pc \in {"idle", "handle_resp", "returned", "raised"}

\* the second of two leaves under a sub-command under a sub-command-group is
\* the only focused option and was found
C13_Witness ==
    /\ "_get_option_recursive" \in payload.applied
    /\ Len(PreOrder(payload.interaction.options.items)) = 4
    /\ payload.interaction.options.items[1].type = OptionType_SUB_COMMAND_GROUP
    /\ Len(Focused(payload.interaction.options.items)) = 1
    /\ payload.option.found
    /\ payload.option.option
           = payload.interaction.options.items[1].options.items[1].options.items[2]

\* an autocomplete interaction without a focused option was handled
C13_NoneReturned ==
    \E t \in Tasks :
        /\ tasks[t].interaction.kind = "autocomplete"
        /\ Truthy(tasks[t].interaction.options)
        /\ Focused(tasks[t].interaction.options.items) = <<>>
        /\ tasks[t].pc = "returned"
        /\ "_get_option_recursive" \in payload.applied
        /\ ~payload.option.found

\* the leaf options the router hands to the materializer
RoutedOptions(interaction) ==
    LET data == _get_crescent_command_data(interaction)
    IN  IF data.raised \/ data.options.none THEN <<>> ELSE data.options.items

\* C14: in a command interaction a role, user, channel or attachment option
\* whose id is in one of its candidate sections of the resolved table (members
\* before users for a user) is materialized as the object of that section; one
\* whose id is in none of them, also when a candidate section holds other ids,
\* is materialized as the raw id, and nothing is raised.
C14_ReferenceResolvedOrRaw ==
    ("_context_from_interaction_resp" \in payload.applied
        /\ payload.interaction.kind = "command"
        /\ payload.interaction.command_type = CommandType_SLASH)
        => LET interaction == payload.interaction
               options == RoutedOptions(interaction)
           IN  \A k \in 1..Len(options) :
                   options[k].type \in ReferenceTypes
                       => LET attrs == _VALUE_TYPE_LINK(options[k].type)
                              hits == {i \in 1..Len(attrs) :
                                          Contains(Section(interaction.resolved, attrs[i]),
                                                   options[k].value)}
                              first == CHOOSE i \in hits : \A j \in hits : i <= j
                          IN  /\ ~payload.options.raised
                              /\ payload.options.kwargs[options[k].name]
                                     = IF hits = {} THEN Raw(options[k].value)
                                       ELSE Resolved(attrs[first], options[k].value)

\* every routed option is an argument whose value is the raw wire value
RawKwargs(interaction, res) ==
    LET options == RoutedOptions(interaction)
    IN  /\ ~res.raised
        /\ DOMAIN res.kwargs = {options[k].name : k \in 1..Len(options)}
        /\ \A k \in 1..Len(options) :
               res.kwargs[options[k].name] = Raw(options[k].value)

\* C15: for an autocomplete interaction every option of every type is
\* materialized as its raw wire value, whatever the resolved table holds.
C15_AutocompleteValuesAreRaw ==
    /\ ("_context_from_interaction_resp" \in payload.applied
            /\ payload.interaction.kind = "autocomplete"
            /\ ~_get_crescent_command_data(payload.interaction).raised)
           => RawKwargs(payload.interaction, payload.options)
    /\ \A t \in Tasks :
           (tasks[t].interaction.kind = "autocomplete"
                /\ tasks[t].pc \in {"ac_callback", "create_response", "ac_try_handle",
                                     "ac_on_error"})
               => RawKwargs(tasks[t].interaction,
                            [raised |-> FALSE, kwargs |-> tasks[t].options])

\* an autocomplete interaction with a role option whose id is in the roles
\* section was materialized and its callback is about to be called
C15_Witness ==
    /\ "_context_from_interaction_resp" \in payload.applied
    /\ payload.interaction.kind = "autocomplete"
    /\ Truthy(payload.interaction.options)
    /\ payload.interaction.options.items[1].type = OptionType_ROLE
    /\ payload.interaction.resolved.roles = <<"i1">>
    /\ payload.options.kwargs["who"] = Raw("i1")
    /\ \E t \in Tasks : tasks[t].pc = "ac_callback"

\* C16: a user-target or message-target command ignores its option list and
\* gets exactly one argument: a message-target command {message: the message
\* of the resolved table}, a user-target command {user: the member} when the
\* table has a member and {user: the user} otherwise; materialization raises
\* when the table is absent or holds no message, member or user.
C16_TargetCommandArgument ==
    ("_context_from_interaction_resp" \in payload.applied
        /\ payload.interaction.kind = "command"
        /\ payload.interaction.command_type
               \in {CommandType_USER, CommandType_MESSAGE})
        => LET resolved == payload.interaction.resolved
               res == payload.options
               empty == \/ resolved.none
                        \/ /\ resolved.messages = <<>>
                           /\ resolved.members = <<>>
                           /\ resolved.users = <<>>
           IN  /\ res.raised <=> empty
               /\ (~empty /\ payload.interaction.command_type = CommandType_MESSAGE)
                      => res.kwargs
                             = [n \in {"message"} |->
                                    Resolved("messages", resolved.messages[1])]
               /\ (~empty /\ payload.interaction.command_type = CommandType_USER)
                      => res.kwargs
                             = [n \in {"user"} |->
                                    IF resolved.members # <<>>
                                    THEN Resolved("members", resolved.members[1])
                                    ELSE Resolved("users", resolved.users[1])]

\* a user-target command with an option list, a member and another user
C16_Witness ==
    /\ "_context_from_interaction_resp" \in payload.applied
    /\ payload.interaction.command_type = CommandType_USER
    /\ Truthy(payload.interaction.options)
    /\ payload.interaction.resolved.members = <<"i1">>
    /\ payload.interaction.resolved.users = <<"i2">>
    /\ payload.options.kwargs = [n \in {"user"} |-> Resolved("members", "i1")]

\* a message-target command got its message
C16_MessageTarget ==
    /\ "_context_from_interaction_resp" \in payload.applied
    /\ payload.interaction.command_type = CommandType_MESSAGE
    /\ ~payload.options.raised
    /\ payload.options.kwargs = [n \in {"message"} |-> Resolved("messages", "m1")]

---------------------------------------------------------------------------
(* Order of the calls of one interaction *)

CountEv(log, ev) == Cardinality({k \in 1..Len(log) : log[k].ev = ev})

\* C17: when the autocomplete callback returns, the choices go to the future
\* if one is set and not yet completed and to create_response otherwise; one
\* interaction never gets both, and no hook runs for it.
C17_ChoicesDeliveredOnce ==
    [][\A t \in Tasks :
          LET task == tasks[t]
              after == tasks'[t]
              returned == Event("autocomplete", 0, "return", FALSE)
          IN  /\ (task.pc = "ac_callback" /\ after.pc \notin {"ac_callback", "ac_try_handle"})
                     => IF task.future = "pending"
                        THEN /\ after.log = task.log \o <<returned, Ev("set_result")>>
                             /\ after.future = "done"
                             /\ after.pc = "returned"
                        ELSE /\ after.log = Append(task.log, returned)
                             /\ after.future = task.future
                             /\ after.pc = "create_response"
              /\ (task.pc = "create_response" /\ after.pc # "create_response")
                     => /\ Len(after.log) = Len(task.log) + 1
                        /\ after.log[Len(after.log)].ev = "create_response"
              /\ after.interaction.kind = "autocomplete"
                     => /\ CountEv(after.log, "set_result")
                               + CountEv(after.log, "create_response") <= 1
                        /\ CountEv(after.log, "pre_hook") = 0
                        /\ CountEv(after.log, "after_hook") = 0
                        /\ CountEv(after.log, "callback") = 0
                        /\ (after.pc = "returned" /\ CountEv(after.log, "autocomplete") = 1
                                /\ CountEv(after.log, "autocomplete_try_handle") = 0)
                               => CountEv(after.log, "set_result")
                                      + CountEv(after.log, "create_response") = 1]_vars

\* the choices of a handler with hooks went to the pending future
C17_Witness ==
    \E t \in Tasks :
        /\ tasks[t].pc = "returned"
        /\ tasks[t].command.hooks > 0
        /\ tasks[t].command.after_hooks > 0
        /\ tasks[t].future = "done"
        /\ tasks[t].log = <<Event("autocomplete", 0, "return", FALSE), Ev("set_result")>>

\* the choices went to create_response because the future was already completed
C17_FreshResponse ==
    \E t \in Tasks :
        /\ tasks[t].pc = "returned"
        /\ tasks[t].future = "done"
        /\ tasks[t].log = <<Event("autocomplete", 0, "return", FALSE),
                            Event("create_response", 0, "return", FALSE)>>

\* a command interaction whose handler was found and whose context was built
Dispatched(task) ==
    /\ task.interaction.kind = "command"
    /\ task.pc \notin {"idle", "handle_resp"}
    /\ task.cause \notin {"router", "miss", "context"}

PreHookStopped(log) ==
    \E p \in 1..Len(log) :
        log[p].ev = "pre_hook" /\ log[p].res \in {"exit"} \cup Exceptions

\* C18: for a command interaction whose handler is found and in which no
\* pre-hook exits or raises, the calls are: each pre-hook once in registration
\* order, then the callback once with the materialized options, then, only
\* when the callback returned, the post-hooks in registration order; a
\* post-hook that exits ends the interaction with no error reported.
C18_CommandCallOrder ==
    \A t \in Tasks :
        LET task == tasks[t]
            log == task.log
            h == task.command.hooks
            a == task.command.after_hooks
        IN  (Dispatched(task) /\ ~PreHookStopped(log))
                => /\ task.options = _context_from_interaction_resp(task.interaction).kwargs
                   /\ \A p \in 1..Len(log) :
                          /\ p <= h => log[p].ev = "pre_hook" /\ log[p].n = p
                          /\ p = h + 1 => log[p].ev = "callback"
                          /\ p > h + 1 => log[p].ev \in {"after_hook", "try_handle",
                                                         "on_crescent_command_error"}
                          /\ log[p].ev = "after_hook"
                                 => /\ log[h + 1].res = "return"
                                    /\ log[p].n = p - (h + 1)
                                    /\ log[p].n <= a
                                    /\ log[p].res = "exit"
                                           => p = Len(log) /\ task.pc = "returned"
                          /\ log[p].ev = "try_handle"
                                 => /\ log[p - 1].ev \in {"callback", "after_hook"}
                                    /\ log[p - 1].res \in Exceptions
                   /\ task.pc \in {"pre_hook", "callback"} \/ Len(log) >= h + 1
                   /\ (task.pc = "returned" /\ \A p \in 1..Len(log) :
                                                    log[p].res \notin {"exit"} \cup Exceptions)
                          => Len(log) = h + 1 + a

\* all the pre-hooks, the callback and all the post-hooks of a handler ran
C18_Witness ==
    \E t \in Tasks :
        /\ tasks[t].pc = "returned"
        /\ tasks[t].command.hooks = MaxHooks
        /\ tasks[t].command.after_hooks = MaxHooks
        /\ Len(tasks[t].log) = 2 * MaxHooks + 1
        /\ tasks[t].log[MaxHooks] = Event("pre_hook", MaxHooks, "continue", FALSE)
        /\ tasks[t].log[MaxHooks + 1] = Event("callback", 0, "return", FALSE)
        /\ tasks[t].log[2 * MaxHooks + 1].ev = "after_hook"

\* the first of two post-hooks signalled exit
C18_PostHookExit ==
    \E t \in Tasks :
        /\ tasks[t].pc = "returned"
        /\ tasks[t].command.after_hooks >= 2
        /\ tasks[t].log # <<>>
        /\ tasks[t].log[Len(tasks[t].log)] = Event("after_hook", 1, "exit", FALSE)

---------------------------------------------------------------------------
(* The calls of one synchronisation *)

Range(seq) == {seq[i] : i \in 1..Len(seq)}

\* what the service stores for a created command, but for its id
Stored(c) ==
    AppCommand(CommandType_SLASH, c.name, c.description, c.guild_id,
               IF Truthy(c.options) THEN c.options ELSE NoneList,
               c.default_permission, c.name)

\* the remote commands once every call of the synchronisation has completed,
\* computed from what init fetched and decided and from no order of the calls
FinalRemote ==
    LET fetched == Range(sync.discord_commands)
        deleted == Range(sync.deleted)
        created == Range(sync.created)
    IN  { dc \in fetched \ deleted : \A c \in created : ~is_same_command(dc, c) }
            \cup { [Stored(c) EXCEPT !.id = dc.id] :
                       <<c, dc>> \in { x \in created \X (fetched \ deleted) :
                                          is_same_command(x[2], x[1]) } }
            \cup { Stored(c) : c \in { x \in created :
                                          \A dc \in fetched : ~is_same_command(dc, x) } }

\* C19: in one CommandHandler.init no deleted remote command has the name,
\* type and guild of a created local command, and whatever the order in which
\* the delete and create calls complete the remote commands end up the same.
C19_DeleteAndCreateDisjoint ==
    sync.status = "done"
        => /\ \A i \in 1..Len(sync.deleted), j \in 1..Len(sync.created) :
                  ~is_same_command(sync.deleted[i], sync.created[j])
           /\ calls = {} => /\ Range(remote) = FinalRemote
                            /\ Len(remote) = Cardinality(FinalRemote)

\* a synchronisation that deleted one command and created two has completed
C19_Witness ==
    /\ sync.status = "done"
    /\ Len(sync.deleted) >= 1
    /\ Len(sync.created) >= 2
    /\ calls = {}

\* a command or autocomplete interaction whose first option is a
\* sub-command-group without nested options
Malformed(interaction) ==
    /\ interaction.kind \in {"command", "autocomplete"}
    /\ ~interaction.options.none
    /\ interaction.options.items # <<>>
    /\ interaction.options.items[1].type = OptionType_SUB_COMMAND_GROUP
    /\ \/ interaction.options.items[1].options.none
       \/ interaction.options.items[1].options.items = <<>>

\* C20: an interaction whose first option is a sub-command-group with an
\* absent or empty nested option list makes the router raise, and the
\* exception leaves handle_resp before any lookup: no handler is bound and no
\* hook, callback, autocomplete callback or error callback is called.
C20_MalformedGroupIsFatal ==
    /\ ("_get_crescent_command_data" \in payload.applied
            /\ Malformed(payload.interaction))
           => payload.data.raised
    /\ \A t \in Tasks :
           (Malformed(tasks[t].interaction) /\ tasks[t].pc \notin {"idle", "handle_resp"})
               => /\ tasks[t].pc = "raised"
                  /\ tasks[t].cause = "router"
                  /\ tasks[t].command = NoHandler
                  /\ tasks[t].log = <<>>

\* a command with an empty sub-command-group was received and raised
C20_Witness ==
    \E t \in Tasks :
        /\ tasks[t].interaction.kind = "command"
        /\ Malformed(tasks[t].interaction)
        /\ tasks[t].interaction.options.items[1].options = List(<<>>)
        /\ tasks[t].pc = "raised"
        /\ payload.data.raised

---------------------------------------------------------------------------
(* Frame of the dispatch *)

\* the registry as a map: its keys and the handler bound to each
Bindings(reg) == { <<reg[i].key, reg[i].value.callback>> : i \in 1..Len(reg) }

\* a step that changes a key or the handler bound to a key is a register() call
OnlyRegisterRebinds ==
    Bindings(registry') # Bindings(registry) => registrations' = registrations + 1

C21_BuildDoesNotRebind == [][OnlyRegisterRebinds]_vars

C21_MissThenRegistered ==
    \E t \in ConcurrentTasks :
        /\ tasks[t].cause = "miss"
        /\ tasks[t].interaction.command_name = "greet"
        /\ \E i \in 1..Len(registry) : registry[i].value.callback = "greet"

====
